---------------------------- MODULE Spec2Model ----------------------------
(***************************************************************************)
(* A model of the plan-gist decoder of crdb-plan-gist-decoder              *)
(* (src/format.go, src/cmd/main.go).                                       *)
(*                                                                         *)
(* DecodePlanGist is modelled as a state machine over one invocation:      *)
(* the base64 decode of the input string, the version read, one step per   *)
(* iteration of the operator loop, and the final assembly of the tree.     *)
(* Bytes are numbers 0..255, characters of the input string are numbers    *)
(* (0..63 the base64 alphabet, PadChar '=', BadChar a character outside    *)
(* the alphabet), nodes are records [op, args, children] and a nil *Node   *)
(* is the record Nil.  A panic leaves DecodePlanGist without a return      *)
(* value: outcome = "panic".                                               *)
(***************************************************************************)
EXTENDS Integers, Sequences, FiniteSets, TLC

VARIABLES
    gist,         \* the input string (sequence of character codes)
    tableLookup,  \* "nil" or "fn": the TableLookupFunc argument
    indexLookup,  \* "nil" or "fn": the IndexLookupFunc argument
    pc,           \* position inside DecodePlanGist
    buf,          \* d.buf: the decoded bytes
    pos,          \* d.buf's read position (bytes consumed)
    nodeStack,    \* d.nodeStack
    checks,       \* the local slice checks
    outcome,      \* "running", "ok", "base64", "version", "panic"
    node,         \* the *Node returned (Nil when nil or when nothing returned)
    calls,        \* history: the resolver invocations, in order
    pushLog,      \* history: every node decodeOp pushed, in order
    idLog,        \* history: every table/index identifier decoded, in order
    opsRead,      \* history: number of operator bytes read by decodeOp
    failedRead,   \* history: a primitive read of version or body failed
    atEnd,        \* history: what the loop saw when it stopped
    output,       \* the string FormatPlan returned for node, as lines
    loc,          \* concurrent invocations: the locals of each invocation
    dec           \* concurrent invocations: the planGistDecoder values

vars == <<gist, tableLookup, indexLookup, pc, buf, pos, nodeStack, checks,
          outcome, node, calls, pushLog, idLog, opsRead, failedRead, atEnd,
          output, loc, dec>>

---------------------------------------------------------------------------
(* Operator codes: the iota enumeration of execOperator.                   *)

unknownOp == 0
scanOp == 1
valuesOp == 2
filterOp == 3
invertedFilterOp == 4
simpleProjectOp == 5
serializingProjectOp == 6
renderOp == 7
applyJoinOp == 8
hashJoinOp == 9
mergeJoinOp == 10
groupByOp == 11
scalarGroupByOp == 12
distinctOp == 13
hashSetOpOp == 14
streamingSetOpOp == 15
unionAllOp == 16
sortOp == 17
indexJoinOp == 19
lookupJoinOp == 20
invertedJoinOp == 21
limitOp == 23
topKOp == 24
insertOp == 31
updateOp == 33
upsertOp == 34
deleteOp == 35
errorIfRowsOp == 42

\* Mutant of gistVersion: the wrong version constant.
gistVersion_Two == 1 + 1

gistVersion == 1

\* encoding/binary.MaxVarintLen64, the byte limit of ReadUvarint.
MaxVarintLen64 == 10

Nil == [nil |-> TRUE]

---------------------------------------------------------------------------
(* base64.StdEncoding.DecodeString, as DecodePlanGist calls it: padded,    *)
(* not strict (the unused low bits of the last character are ignored).     *)

PadChar == 64
BadChar == 65

IsAlpha(c) == c >= 0 /\ c < 64

\* The bytes of one quantum of n (2..4) alphabet characters d.
QuantumBytes(d, n) ==
    LET d3 == IF n >= 3 THEN d[3] ELSE 0
        d4 == IF n >= 4 THEN d[4] ELSE 0
        b1 == d[1] * 4 + (d[2] \div 16)
        b2 == (d[2] % 16) * 16 + (d3 \div 4)
        b3 == (d3 % 4) * 64 + d4
    IN  SubSeq(<<b1, b2, b3>>, 1, n - 1)

\* [ok, bytes]: ok = FALSE is a CorruptInputError.
RECURSIVE Base64From(_, _, _)
Base64From(s, i, acc) ==
    LET left == Len(s) - i + 1 IN
    IF left = 0 THEN [ok |-> TRUE, bytes |-> acc]
    ELSE IF left < 4 THEN
        \* the input ends inside a quantum: with padding required this is
        \* corrupt whatever the characters are
        [ok |-> FALSE, bytes |-> acc]
    ELSE
        LET q == SubSeq(s, i, i + 3) IN
        IF \A k \in 1..4 : IsAlpha(q[k]) THEN
            Base64From(s, i + 4, acc \o QuantumBytes(q, 4))
        ELSE IF IsAlpha(q[1]) /\ IsAlpha(q[2]) /\ IsAlpha(q[3])
                /\ q[4] = PadChar /\ left = 4 THEN
            [ok |-> TRUE, bytes |-> acc \o QuantumBytes(q, 3)]
        ELSE IF IsAlpha(q[1]) /\ IsAlpha(q[2]) /\ q[3] = PadChar
                /\ q[4] = PadChar /\ left = 4 THEN
            [ok |-> TRUE, bytes |-> acc \o QuantumBytes(q, 2)]
        ELSE
            \* a character outside the alphabet, padding in the first two
            \* places, a lone '=' in the third, or text after the padding
            [ok |-> FALSE, bytes |-> acc]

\* Mutant of DecodeString: a decoder that stops at the first character
\* outside the alphabet and accepts what it has read so far.
RECURSIVE AlphaPrefix(_, _)
AlphaPrefix(s, i) ==
    IF i > Len(s) \/ ~IsAlpha(s[i]) THEN i - 1 ELSE AlphaPrefix(s, i + 1)

DecodeString_Lenient(s) ==
    [ok |-> TRUE,
     bytes |-> Base64From(SubSeq(s, 1, 4 * (AlphaPrefix(s, 1) \div 4)), 1,
                          <<>>).bytes]

DecodeString(s) == Base64From(s, 1, <<>>)

---------------------------------------------------------------------------
(* The byte cursor.  A reader value r is [ok, pos, val, vals, calls, ids]: *)
(* pos the read position, val the value last read, vals the values of the  *)
(* fields read so far in the current operator, calls the resolver          *)
(* invocations made so far and ids the identifiers decoded so far.         *)
(* start is the position the reader was created at.                        *)
(* ok = FALSE means a read has panicked; every later read of the same call *)
(* is then skipped, as the panic unwinds DecodePlanGist.                   *)

Reader(p) ==
    [ok |-> TRUE, pos |-> p, val |-> 0, vals |-> <<>>, calls |-> <<>>,
     ids |-> <<>>, start |-> p]

Failed(r) == [r EXCEPT !.ok = FALSE, !.val = 0]

\* bytes.Reader.ReadByte through decodeByte.
decodeByte(b, r) ==
    IF ~r.ok THEN r
    ELSE IF r.pos >= Len(b) THEN Failed(r)
    ELSE [r EXCEPT !.pos = r.pos + 1, !.val = b[r.pos + 1]]

NonZero(x) == IF ~x.ok THEN x ELSE [x EXCEPT !.val = (x.val # 0)]

decodeBool(b, r) == NonZero(decodeByte(b, r))

\* binary.ReadUvarint: base-128, little-endian, at most MaxVarintLen64 bytes.
RECURSIVE ReadUvarint(_, _, _, _, _)
ReadUvarint(b, r, i, x, mult) ==
    IF i = MaxVarintLen64 THEN Failed(r)
    ELSE IF r.pos >= Len(b) THEN Failed(r)
    ELSE IF b[r.pos + 1] < 128
         THEN IF i = MaxVarintLen64 - 1 /\ b[r.pos + 1] > 1
              THEN Failed([r EXCEPT !.pos = r.pos + 1])
              ELSE [r EXCEPT !.pos = r.pos + 1,
                             !.val = x + b[r.pos + 1] * mult]
         ELSE ReadUvarint(b, [r EXCEPT !.pos = r.pos + 1], i + 1,
                          x + (b[r.pos + 1] % 128) * mult, mult * 128)

decodeUvarint(b, r) ==
    IF ~r.ok THEN r ELSE ReadUvarint(b, r, 0, 0, 1)

\* binary.ReadVarint: the zig-zag decoding of an unsigned varint.
ZigZag(ux) == IF ux % 2 = 0 THEN ux \div 2 ELSE -(ux \div 2) - 1

Signed(u) == IF ~u.ok THEN u ELSE [u EXCEPT !.val = ZigZag(u.val)]

decodeInt(b, r) == Signed(decodeUvarint(b, r))

decodeID(b, r) == decodeInt(b, r)

---------------------------------------------------------------------------
(* The resolvers.  "nil" is a nil function value; "fn" is the resolver of  *)
(* TestDecodePlanGistWithLookup, which knows table 112 and its index 1 and *)
(* returns "" for everything else.                                         *)

TableLookupFn(id) == IF id = 112 THEN "users" ELSE ""

IndexLookupFn(tableID, indexID) ==
    IF tableID = 112 /\ indexID = 1 THEN "users_pkey" ELSE ""

\* Mutant of tableName: the resolver's answer is stored even when it is the
\* empty string.
tableName_NoEmptyCheck(id, tl) ==
    IF tl # "nil" THEN TableLookupFn(id) ELSE "?"

\* The name decodeTable chooses for id.
tableName(id, tl) ==
    IF tl # "nil" /\ TableLookupFn(id) # "" THEN TableLookupFn(id) ELSE "?"

\* The name decodeIndex chooses for id.
indexName(tableID, id, il) ==
    IF il # "nil" /\ IndexLookupFn(tableID, id) # ""
    THEN IndexLookupFn(tableID, id) ELSE "?"

\* x is the reader after decodeID; val becomes the pair (id, name).
resolveTable(x, tl) ==
    IF ~x.ok THEN x
    ELSE [x EXCEPT
            !.val = [id |-> x.val, name |-> tableName(x.val, tl)],
            !.calls = IF tl # "nil"
                      THEN Append(@, [fn |-> "table", tableID |-> x.val,
                                      id |-> x.val])
                      ELSE @,
            !.ids = Append(@, [kind |-> "table", tableID |-> x.val,
                               id |-> x.val])]

decodeTable(b, r, tl) == resolveTable(decodeID(b, r), tl)

\* Mutant of resolveIndex: the index resolver's call comes before the call
\* of the table resolver of the same operator.
resolveIndex_BeforeTable(x, tableID, il) ==
    IF ~x.ok THEN x
    ELSE [x EXCEPT
            !.val = [id |-> x.val, name |-> indexName(tableID, x.val, il)],
            !.calls = IF il # "nil"
                      THEN <<[fn |-> "index", tableID |-> tableID,
                              id |-> x.val]>> \o @
                      ELSE @,
            !.ids = Append(@, [kind |-> "index", tableID |-> tableID,
                               id |-> x.val])]

resolveIndex(x, tableID, il) ==
    IF ~x.ok THEN x
    ELSE [x EXCEPT
            !.val = [id |-> x.val, name |-> indexName(tableID, x.val, il)],
            !.calls = IF il # "nil"
                      THEN Append(@, [fn |-> "index", tableID |-> tableID,
                                      id |-> x.val])
                      ELSE @,
            !.ids = Append(@, [kind |-> "index", tableID |-> tableID,
                               id |-> x.val])]

decodeIndex(b, r, tableID, il) == resolveIndex(decodeID(b, r), tableID, il)

\* The length pairs of decodeIntSet's loop.
RECURSIVE IntSetPairs(_, _, _)
IntSetPairs(b, r, n) ==
    IF ~r.ok \/ n = 0 THEN r
    ELSE IntSetPairs(b, decodeUvarint(b, decodeUvarint(b, r)), n - 1)

IntSetRest(b, length) ==
    IF ~length.ok THEN length
    ELSE IF length.val = 0 THEN decodeUvarint(b, length)
    ELSE IntSetPairs(b, length, length.val)

decodeIntSet(b, r) == IntSetRest(b, decodeUvarint(b, r))

\* len() of the slice decodeNodeColumnOrdinals returns: nil when l < 0,
\* else l zeros.
OrdinalsLen(l) == IF ~l.ok THEN l
                  ELSE [l EXCEPT !.val = IF l.val < 0 THEN 0 ELSE l.val]

decodeNodeColumnOrdinals(b, r) == OrdinalsLen(decodeInt(b, r))

decodeResultColumns(b, r) == decodeInt(b, r)

joinTypes ==
    <<"inner", "left outer", "right outer", "full outer",
      "semi", "anti", "intersect all", "except all">>

JoinTypeName(jt) ==
    IF ~jt.ok THEN jt
    ELSE [jt EXCEPT !.val = IF jt.val < Len(joinTypes)
                            THEN joinTypes[jt.val + 1]
                            ELSE "join type " \o ToString(jt.val)]

decodeJoinType(b, r) == JoinTypeName(decodeByte(b, r))

decodeRows(b, r) == decodeInt(b, r)

\* The fields of an operator body are read in order, each value kept in
\* vals.  An "index" field is decoded with the table identifier of the
\* field before it, which is the "table" field in every arm that has one.
Keep(x) == IF ~x.ok THEN x ELSE [x EXCEPT !.vals = Append(@, x.val)]

NoArgs == [k \in {} |-> 0]

\* The params map decodeScanParams builds from numSpans, numInvertedSpans
\* and hardLimit.
scanParams(numSpans, numInvertedSpans, hardLimit) ==
    (IF numSpans > 0
     THEN IF numSpans = 1 THEN "spans" :> "1 span"
          ELSE "spans" :> (ToString(numSpans) \o " spans")
     ELSE NoArgs)
    @@ (IF numInvertedSpans > 0 THEN "inverted_constraint" :> TRUE
        ELSE NoArgs)
    @@ (IF hardLimit # 0 THEN "limit" :> "limited" ELSE NoArgs)

\* x is the reader after decodeScanParams' four reads, whose values are the
\* last four of vals: they are the function's locals and leave vals; val
\* becomes the params map.
ParamsOf(x) ==
    IF ~x.ok THEN x
    ELSE [x EXCEPT !.val = scanParams(x.vals[Len(x.vals) - 2],
                                      x.vals[Len(x.vals) - 1],
                                      x.vals[Len(x.vals)]),
                   !.vals = SubSeq(@, 1, Len(@) - 4)]

RECURSIVE ReadFields(_, _, _, _, _, _)

decodeScanParams(b, r, tl, il) ==
    ParamsOf(ReadFields(<<"intset", "int", "int", "int">>, 1, b, r, tl, il))

ReadField(kind, b, r, tl, il) ==
    CASE kind = "table" -> decodeTable(b, r, tl)
      [] kind = "index" -> decodeIndex(b, r, r.vals[Len(r.vals)].id, il)
      [] kind = "scanparams" -> decodeScanParams(b, r, tl, il)
      [] kind = "intset" -> decodeIntSet(b, r)
      [] kind = "int" -> decodeInt(b, r)
      [] kind = "ordinals" -> decodeNodeColumnOrdinals(b, r)
      [] kind = "jointype" -> decodeJoinType(b, r)
      [] kind = "bool" -> decodeBool(b, r)

\* The reader after field k is bound as a value before the next field is
\* read from it.
ReadFields(fields, k, b, r, tl, il) ==
    IF k > Len(fields) \/ ~r.ok THEN r
    ELSE CHOOSE res \in {ReadFields(fields, k + 1, b, after, tl, il) :
                            after \in {Keep(ReadField(fields[k], b, r, tl, il))}} :
             TRUE

\* Mutant of popChild: the top node is returned and left on the stack.
popChild_Peek(stack) ==
    IF Len(stack) = 0 THEN [n |-> Nil, s |-> stack]
    ELSE [n |-> stack[Len(stack)], s |-> stack]

\* [n, s]: the node popped (Nil on an empty stack) and the stack left.
popChild(stack) ==
    IF Len(stack) = 0 THEN [n |-> Nil, s |-> stack]
    ELSE [n |-> stack[Len(stack)], s |-> SubSeq(stack, 1, Len(stack) - 1)]

---------------------------------------------------------------------------
(* decodeOperatorBody, arm by arm: the fields an operator reads, in order, *)
(* the attributes it stores and the children it pops.                      *)

bodyFields(op) ==
    CASE op = scanOp -> <<"table", "index", "scanparams">>
      [] op = valuesOp -> <<"int", "int">>
      [] op \in {simpleProjectOp, serializingProjectOp} -> <<"ordinals">>
      [] op = renderOp -> <<"int">>
      [] op = hashJoinOp ->
            <<"jointype", "ordinals", "ordinals", "bool", "bool">>
      [] op = mergeJoinOp -> <<"jointype", "bool", "bool">>
      [] op = groupByOp -> <<"ordinals">>
      [] op = topKOp -> <<"int">>
      [] op = indexJoinOp -> <<"table", "ordinals">>
      [] op = lookupJoinOp ->
            <<"jointype", "table", "index", "ordinals", "bool">>
      [] op = invertedJoinOp -> <<"jointype", "table", "index", "ordinals">>
      [] op = insertOp -> <<"table", "intset", "intset", "intset", "bool">>
      [] op = updateOp -> <<"table">>
      [] op = deleteOp -> <<"table", "intset", "intset", "bool">>
      [] op = upsertOp ->
            <<"table", "intset", "intset", "intset", "intset", "intset",
              "bool">>
      [] OTHER -> <<>>

\* n.args, from the values v of the fields read.
bodyArgs(op, v) ==
    CASE op = scanOp ->
            [table |-> v[1].name, index |-> v[2].name, table_id |-> v[1].id,
             index_id |-> v[2].id] @@ v[3]
      [] op = valuesOp -> [rows |-> v[1], columns |-> v[2]]
      [] op = renderOp -> [columns |-> v[1]]
      [] op = hashJoinOp ->
            [type |-> v[1], left_eq_cols |-> v[2], right_eq_cols |-> v[3]]
            @@ (IF v[4] THEN "left_key" :> TRUE ELSE NoArgs)
            @@ (IF v[5] THEN "right_key" :> TRUE ELSE NoArgs)
      [] op = mergeJoinOp -> [type |-> v[1]]
      [] op = topKOp -> [k |-> v[1]]
      [] op \in {indexJoinOp, insertOp, updateOp, deleteOp, upsertOp} ->
            [table |-> v[1].name, table_id |-> v[1].id]
      [] op \in {lookupJoinOp, invertedJoinOp} ->
            [type |-> v[1], table |-> v[2].name, index |-> v[3].name]
      [] OTHER -> NoArgs

\* &Node{...}: addr stands for the pointer, the identity of the node
\* allocated.  decodeOperatorBody allocates one node per call, named here
\* by the position its body starts at; the wrapper has addr 0.
MkNode(op, args, children, addr) ==
    [op |-> op, args |-> args, children |-> children, addr |-> addr]

\* Mutant of popOne: the child is attached and stays on the stack.
popOne_KeepsChild(stack) ==
    [children |-> <<popChild(stack).n>>, stack |-> stack]

\* [children, stack] after n.children = append(n.children, d.popChild())
popOne(stack) ==
    [children |-> <<popChild(stack).n>>, stack |-> popChild(stack).s]

\* Mutant of popTwo: the children are attached in the order popped.
popTwo_PopOrder(stack) ==
    [children |-> <<popChild(stack).n, popChild(popChild(stack).s).n>>,
     stack |-> popChild(popChild(stack).s).s]

\* right := d.popChild(); left := d.popChild(); append(left, right)
popTwo(stack) ==
    [children |-> <<popChild(popChild(stack).s).n, popChild(stack).n>>,
     stack |-> popChild(popChild(stack).s).s]

popNone(stack) == [children |-> <<>>, stack |-> stack]

\* Mutant of bodyChildren: every single-child arm pops only when the stack
\* holds a node, as the default arm does.
bodyChildren_Defensive(op, stack) ==
    CASE op \in {scanOp, valuesOp} -> popNone(stack)
      [] op \in {hashJoinOp, mergeJoinOp, unionAllOp, hashSetOpOp,
                 streamingSetOpOp} -> popTwo(stack)
      [] OTHER -> IF Len(stack) > 0 THEN popOne(stack) ELSE popNone(stack)

\* Mutant of bodyChildren: the default arm pops without looking at the
\* stack, as the single-child arms do.
bodyChildren_AlwaysPop(op, stack) ==
    CASE op \in {scanOp, valuesOp} -> popNone(stack)
      [] op \in {hashJoinOp, mergeJoinOp, unionAllOp, hashSetOpOp,
                 streamingSetOpOp} -> popTwo(stack)
      [] OTHER -> popOne(stack)

\* The children an arm attaches and the stack it leaves.
bodyChildren(op, stack) ==
    CASE op \in {scanOp, valuesOp} -> popNone(stack)
      [] op \in {filterOp, invertedFilterOp, simpleProjectOp,
                 serializingProjectOp, renderOp, groupByOp, scalarGroupByOp,
                 distinctOp, sortOp, limitOp, topKOp, indexJoinOp,
                 lookupJoinOp, invertedJoinOp, insertOp, updateOp, deleteOp,
                 upsertOp, errorIfRowsOp} -> popOne(stack)
      [] op \in {hashJoinOp, mergeJoinOp, unionAllOp, hashSetOpOp,
                 streamingSetOpOp} -> popTwo(stack)
      [] OTHER -> \* default: pop a child only if one exists
            IF Len(stack) > 0 THEN popOne(stack) ELSE popNone(stack)

\* [ok, pos, calls, ids, node, stack]: r is the reader after the body's
\* fields.  With ok = FALSE a read panicked: there is no node, and the
\* stack is untouched since every arm pops after its last read.
Build(op, r, stack) ==
    [ok |-> r.ok, pos |-> r.pos, calls |-> r.calls, ids |-> r.ids,
     node |-> IF r.ok
              THEN MkNode(op, bodyArgs(op, r.vals),
                          bodyChildren(op, stack).children, r.start)
              ELSE Nil,
     stack |-> IF r.ok THEN bodyChildren(op, stack).stack ELSE stack]

decodeOperatorBody(op, b, r, stack, tl, il) ==
    CHOOSE res \in {Build(op, read, stack) :
                       read \in {ReadFields(bodyFields(op), 1, b, r, tl, il)}} :
        TRUE

---------------------------------------------------------------------------
(* decodeOp: one operator byte, its body, and the push.  kind is "eof"     *)
(* (ReadByte failed), "terminator" (the byte was 0), "panic" (a read of    *)
(* the body panicked) or "op" (a node was pushed); op is the code          *)
(* returned, unknownOp for "eof" and "terminator".                         *)

\* Mutant of Pushed: a failed read of the body is swallowed and a node
\* without attributes is pushed, as a recover() in decodeOp would do.
Pushed_Recover(code, body) ==
    [kind |-> "op", ok |-> body.ok, op |-> code, pos |-> body.pos,
     stack |-> Append(body.stack, MkNode(code, NoArgs, <<>>, body.pos)),
     calls |-> body.calls, ids |-> body.ids,
     node |-> MkNode(code, NoArgs, <<>>, body.pos)]

\* body is decodeOperatorBody's result for the operator byte code; ok says
\* whether every read of the body succeeded.
Pushed(code, body) ==
    IF ~body.ok THEN
        [kind |-> "panic", ok |-> FALSE, op |-> code, pos |-> body.pos,
         stack |-> body.stack, calls |-> body.calls, ids |-> body.ids,
         node |-> Nil]
    ELSE
        [kind |-> "op", ok |-> TRUE, op |-> body.node.op, pos |-> body.pos,
         stack |-> Append(body.stack, body.node),
         calls |-> body.calls, ids |-> body.ids, node |-> body.node]

\* Mutant of decodeOp: the code byte of an operator is looked at and left
\* in the reader when the operator's body is empty.
decodeOp_UnreadCode(b, p, stack, tl, il) ==
    IF p >= Len(b) THEN
        [kind |-> "eof", ok |-> TRUE, op |-> unknownOp, pos |-> p,
         stack |-> stack, calls |-> <<>>, ids |-> <<>>, node |-> Nil]
    ELSE IF b[p + 1] = 0 THEN
        [kind |-> "terminator", ok |-> TRUE, op |-> unknownOp, pos |-> p + 1,
         stack |-> stack, calls |-> <<>>, ids |-> <<>>, node |-> Nil]
    ELSE IF bodyFields(b[p + 1]) = <<>> THEN
        Pushed(b[p + 1],
               decodeOperatorBody(b[p + 1], b, Reader(p), stack, tl, il))
    ELSE
        Pushed(b[p + 1],
               decodeOperatorBody(b[p + 1], b, Reader(p + 1), stack, tl, il))

\* Mutant of decodeOp: a zero code byte ends the stream only when it is the
\* last byte of the buffer; bytes after it are a decode error.
decodeOp_StrictEnd(b, p, stack, tl, il) ==
    IF p >= Len(b) THEN
        [kind |-> "eof", ok |-> TRUE, op |-> unknownOp, pos |-> p,
         stack |-> stack, calls |-> <<>>, ids |-> <<>>, node |-> Nil]
    ELSE IF b[p + 1] = 0 THEN
        [kind |-> IF p + 1 = Len(b) THEN "terminator" ELSE "panic",
         ok |-> p + 1 = Len(b), op |-> unknownOp, pos |-> p + 1,
         stack |-> stack, calls |-> <<>>, ids |-> <<>>, node |-> Nil]
    ELSE
        Pushed(b[p + 1],
               decodeOperatorBody(b[p + 1], b, Reader(p + 1), stack, tl, il))

decodeOp(b, p, stack, tl, il) ==
    IF p >= Len(b) THEN
        [kind |-> "eof", ok |-> TRUE, op |-> unknownOp, pos |-> p,
         stack |-> stack, calls |-> <<>>, ids |-> <<>>, node |-> Nil]
    ELSE IF b[p + 1] = 0 THEN
        [kind |-> "terminator", ok |-> TRUE, op |-> unknownOp, pos |-> p + 1,
         stack |-> stack, calls |-> <<>>, ids |-> <<>>, node |-> Nil]
    ELSE
        CHOOSE res \in
            {Pushed(b[p + 1], body) :
                body \in {decodeOperatorBody(b[p + 1], b, Reader(p + 1), stack,
                                             tl, il)}} : TRUE

\* Mutant of collectCheck: the check is put in front of the earlier ones.
collectCheck_Prepend(cs, n) == <<n>> \o cs

\* checks = append(checks, d.popChild())
collectCheck(cs, n) == Append(cs, n)

\* The value DecodePlanGist returns after the loop.
assemble(root, cs) ==
    IF Len(cs) > 0
    THEN MkNode(unknownOp, [checks |-> Len(cs)], <<root>> \o cs, 0)
    ELSE root

---------------------------------------------------------------------------
(* The formatter.  A string is the sequence of its lines, the final "\n"   *)
(* of each line left out, and a line is the sequence of the pieces the     *)
(* Sprintf calls put into it, so "" is <<>> and a line without text is     *)
(* <<>> too.  The box-drawing glyphs are written in ASCII: Bullet is the   *)
(* node marker and its space, Bar the vertical bar and its space,          *)
(* BranchConnector and LastConnector the two connectors.                   *)

ordinalityOp == 18
zigzagJoinOp == 22
max1RowOp == 25
projectSetOp == 26
windowOp == 27
deleteRangeOp == 36
bufferOp == 48
scanBufferOp == 49
recursiveCTEOp == 50

Bullet == "* "
Bar == "| "
BarTrimmed == "|"
Blank == "  "
BranchConnector == "|-- "
LastConnector == "+-- "
BranchPrefix == "|   "
LastPrefix == "    "
Margin == "  "

\* opNames[op], "" for a code the map does not hold.
opNames(op) ==
    CASE op = scanOp -> "scan"
      [] op = valuesOp -> "values"
      [] op = filterOp -> "filter"
      [] op = invertedFilterOp -> "inverted filter"
      [] op = simpleProjectOp -> "simple project"
      [] op = serializingProjectOp -> "serializing project"
      [] op = renderOp -> "render"
      [] op = applyJoinOp -> "apply join"
      [] op = hashJoinOp -> "hash join"
      [] op = mergeJoinOp -> "merge join"
      [] op = groupByOp -> "group by"
      [] op = scalarGroupByOp -> "scalar group by"
      [] op = distinctOp -> "distinct"
      [] op = hashSetOpOp -> "hash set op"
      [] op = streamingSetOpOp -> "streaming set op"
      [] op = unionAllOp -> "union all"
      [] op = sortOp -> "sort"
      [] op = ordinalityOp -> "ordinality"
      [] op = indexJoinOp -> "index join"
      [] op = lookupJoinOp -> "lookup join"
      [] op = invertedJoinOp -> "inverted join"
      [] op = zigzagJoinOp -> "zigzag join"
      [] op = limitOp -> "limit"
      [] op = topKOp -> "top-k"
      [] op = max1RowOp -> "max1row"
      [] op = projectSetOp -> "project set"
      [] op = windowOp -> "window"
      [] op = insertOp -> "insert"
      [] op = updateOp -> "update"
      [] op = upsertOp -> "upsert"
      [] op = deleteOp -> "delete"
      [] op = deleteRangeOp -> "delete range"
      [] op = errorIfRowsOp -> "error if rows"
      [] op = bufferOp -> "buffer"
      [] op = scanBufferOp -> "scan buffer"
      [] op = recursiveCTEOp -> "recursive cte"
      [] OTHER -> ""

\* The display name of a node: opNames[n.op], or op_N when that is empty.
opName(op) == IF opNames(op) = "" THEN "op_" \o ToString(op) ELSE opNames(op)

\* Mutant of IsTrivialProjection: only the simple project is skipped.
IsTrivialProjection_SimpleOnly(op) == op = simpleProjectOp

\* The test of formatNode's first branch.
IsTrivialProjection(op) == op \in {simpleProjectOp, serializingProjectOp}

attrPrefix(n) == IF Len(n.children) > 0 THEN Bar ELSE Blank

Has(n, k) == k \in DOMAIN n.args

\* fmt's %s of n.args[k], a string when present.
ArgText(n, k) == IF Has(n, k) THEN n.args[k] ELSE "%!s(<nil>)"

\* The largest span count whose text Fields takes apart.
MaxSpans == 8

\* strings.Fields of the texts decodeScanParams stores under "spans";
\* a text without a space is its own single field.
Fields(s) ==
    IF s = "1 span" THEN <<"1", "span">>
    ELSE IF \E k \in 2..MaxSpans : s = ToString(k) \o " spans"
    THEN <<ToString(CHOOSE k \in 2..MaxSpans : s = ToString(k) \o " spans"),
           "spans">>
    ELSE <<s>>

\* strings.Contains(s, " ")
ContainsSpace(s) == Len(Fields(s)) > 1

\* Mutant of spansLine: the text stored under "spans" is printed as it is.
spansLine_Verbatim(n) ==
    IF Has(n, "spans")
    THEN <<attrPrefix(n), "spans: ", n.args.spans>>
    ELSE <<attrPrefix(n), "spans: FULL SCAN">>

spansLine(n) ==
    IF Has(n, "spans")
    THEN IF ContainsSpace(n.args.spans)
         THEN <<attrPrefix(n), "spans: ", Fields(n.args.spans)[1], "+ spans">>
         ELSE <<attrPrefix(n), "spans: ", n.args.spans>>
    ELSE <<attrPrefix(n), "spans: FULL SCAN">>

tableIndexLine(n) ==
    <<attrPrefix(n), "table: ", ArgText(n, "table"), "@", ArgText(n, "index")>>

tableLine(n) == <<attrPrefix(n), "table: ", ArgText(n, "table")>>

\* One line when the condition holds, none otherwise.
When(cond, line) == IF cond THEN <<line>> ELSE <<>>

\* The attribute lines of a node, by operator.
attrLines(n) ==
    CASE n.op = scanOp ->
            <<tableIndexLine(n), spansLine(n)>>
            \o When(Has(n, "limit"),
                    <<attrPrefix(n), "limit: ", ArgText(n, "limit")>>)
      [] n.op \in {hashJoinOp, mergeJoinOp, lookupJoinOp} ->
            When(Has(n, "type"), <<attrPrefix(n), "type: ", ArgText(n, "type")>>)
            \o When(Has(n, "table"), tableIndexLine(n))
            \o When(Has(n, "left_eq_cols"),
                    <<attrPrefix(n), "equality cols: ",
                      ToString(n.args.left_eq_cols)>>)
      [] n.op = indexJoinOp -> When(Has(n, "table"), tableLine(n))
      [] n.op = valuesOp ->
            When(Has(n, "rows"),
                 <<attrPrefix(n), "size: ", ToString(n.args.columns),
                   " columns, ", ToString(n.args.rows), " rows">>)
      [] n.op = topKOp ->
            When(Has(n, "k"), <<attrPrefix(n), "k: ", ToString(n.args.k)>>)
      [] n.op \in {insertOp, updateOp, deleteOp, upsertOp} ->
            When(Has(n, "table"), tableLine(n))
            \o When(n.op = updateOp, <<attrPrefix(n), "set">>)
            \o When(Len(n.children) > 0, <<BarTrimmed>>)
      [] n.op = renderOp -> When(Len(n.children) > 0, <<BarTrimmed>>)
      [] OTHER -> <<>>

\* Mutant of SplitLines: the empty string has no lines.
SplitLines_NoLines(str) == str

\* strings.Split(strings.TrimSuffix(str, "\n"), "\n"): the lines of str,
\* and one empty line when str is empty.
SplitLines(str) == IF str = <<>> THEN << <<>> >> ELSE str

\* The loop over lines: the first gets first in front, the others rest.
Prefixed(lines, first, rest) ==
    [j \in 1..Len(lines) |->
        IF j = 1 THEN <<first>> \o lines[j] ELSE <<rest>> \o lines[j]]

RECURSIVE formatNode(_)
RECURSIVE formatChildren(_, _)

\* Mutant of formatChildren: the last child is connected as the others are.
RECURSIVE formatChildren_AllBranch(_, _)
formatChildren_AllBranch(n, i) ==
    IF i > Len(n.children) THEN <<>>
    ELSE Prefixed(SplitLines(formatNode(n.children[i])),
                  BranchConnector, BranchPrefix)
         \o formatChildren_AllBranch(n, i + 1)

\* The loop over n.children, from child i on.
formatChildren(n, i) ==
    IF i > Len(n.children) THEN <<>>
    ELSE (IF i = Len(n.children)
          THEN Prefixed(SplitLines(formatNode(n.children[i])),
                        LastConnector, LastPrefix)
          ELSE Prefixed(SplitLines(formatNode(n.children[i])),
                        BranchConnector, BranchPrefix))
         \o formatChildren(n, i + 1)

\* formatNode(n, prefix, isLast); prefix and isLast are only handed down
\* and never reach the output.
formatNode(n) ==
    IF n = Nil THEN <<>>
    ELSE IF IsTrivialProjection(n.op)
    THEN IF Len(n.children) > 0 THEN formatNode(n.children[1]) ELSE <<>>
    ELSE << <<Bullet, opName(n.op)>> >> \o attrLines(n)
         \o formatChildren(n, 1)

FormatPlan(n) ==
    IF n = Nil THEN <<>>
    ELSE Prefixed(SplitLines(formatNode(n)), Margin, Margin)

---------------------------------------------------------------------------
(* The inputs.  A buffer is a version chunk, some operator records of the  *)
(* Catalogue and a tail, possibly with its last bytes cut off; the gist is *)
(* its base64 encoding, possibly corrupted.                                *)

MaxOps == 3
MaxCut == 2

Catalogue ==
    { <<1, 224, 1, 2, 0, 0, 2, 0, 0>>,   \* scan 112@1, bitmap, 1 span
      <<1, 4, 4, 1, 0, 0, 0, 2, 3>>,     \* scan 2@2, 1 range, inverted, limit
      <<2, 4, 2>>,                       \* values 2 rows, 1 column
      <<3>>,                             \* filter
      <<5, 2>>,                          \* simple project
      <<7, 20>>,                         \* render, 10 columns
      <<8>>,                             \* apply join: no decode arm
      <<9, 0, 2, 2, 1, 0>>,              \* hash join
      <<16>>,                            \* union all
      <<20, 1, 224, 1, 2, 2, 0>>,        \* lookup join on 112@1
      <<31, 4, 0, 0, 1, 2, 3, 0, 0, 1>>, \* insert into table 2
      <<33, 4>>,                         \* update of table 2
      <<42>>,                            \* error if rows
      <<200>> }                          \* a code outside the enumeration

\* One record of each remaining arm, and value cases the Catalogue lacks.
Rare ==
    { <<1, 224, 1, 4, 0, 0, 4, 0, 0>>,   \* scan 112@2, 2 spans
      <<1, 4, 2, 0, 0, 1, 0, 0>>,        \* scan 2@1, span count -1
      <<1, 4, 2, 0, 0, 10, 0, 2>>,       \* scan 2@1, 5 spans, limit
      <<4>>,                             \* inverted filter
      <<6, 1>>,                          \* serializing project, no ordinals
      <<9, 9, 1, 1, 0, 1>>,              \* hash join, join type 9
      <<10, 1, 0, 1>>,                   \* merge join
      <<11, 2>>,                         \* group by
      <<12>>,                            \* scalar group by
      <<13>>,                            \* distinct
      <<14>>,                            \* hash set op
      <<15>>,                            \* streaming set op
      <<17>>,                            \* sort
      <<18>>,                            \* ordinality: no decode arm
      <<27>>,                            \* window: no decode arm
      <<19, 224, 1, 1>>,                 \* index join on table 112
      <<21, 0, 4, 2, 0>>,                \* inverted join on 2@1
      <<23>>,                            \* limit
      <<24, 10>>,                        \* top-k, k = 5
      <<34, 224, 1, 0, 0, 0, 0, 0, 0, 0, 0, 0, 0, 1>>,   \* upsert
      <<35, 4, 0, 0, 0, 0, 0>> }         \* delete from table 2

\* The bytes of the gist of the usage text and the tests,
\* AgHgAQIA/wMCAAAHFAUUIeABAAAFDAYM.
Example ==
    <<2, 1, 224, 1, 2, 0, 255, 3, 2, 0, 0, 7, 20, 5, 20, 33, 224, 1, 0, 0, 5,
      12, 6, 12>>

\* Leaf records and the records of the operators with two children.
Leaves == {c \in Catalogue : c[1] \in {scanOp, valuesOp}}

Binaries ==
    {c \in Catalogue \cup Rare :
        c[1] \in {hashJoinOp, mergeJoinOp, unionAllOp, hashSetOpOp,
                  streamingSetOpOp}}

\* Bytes that follow the terminator: another terminator, codes with and
\* without an arm, a scan cut short, an unfinished varint.
Trailers == {<<0>>, <<255>>, <<3, 3>>, <<1, 224, 1>>, <<2, 128>>}

Extend(shorter) == shorter \cup {s \o c : s \in shorter, c \in Catalogue}

RECURSIVE Streams(_)
Streams(n) == IF n = 0 THEN {<<>>} ELSE Extend(Streams(n - 1))

Versions == {<<4>>, <<1>>, <<0>>, <<224, 1>>, <<128>>}

\* Records of the two projections the formatter leaves out.
Projects ==
    {c \in Catalogue \cup Rare : c[1] \in {simpleProjectOp, serializingProjectOp}}

Whole ==
    {<<2>> \o s \o <<0>> : s \in Streams(MaxOps)}
    \cup {<<2>> \o s : s \in Streams(MaxOps - 1)}
    \cup {v \o s \o <<0>> : v \in Versions, s \in Streams(1)}
    \cup {<<2>> \o s \o c \o <<0>> : s \in Streams(MaxOps - 2), c \in Rare}
    \cup {Example}
    \cup {<<2>> \o a \o b \o c \o j \o <<0>> :
              a \in Leaves, b \in Leaves, c \in Leaves, j \in Binaries}
    \cup {<<2>> \o a \o p \o q \o <<0>> :
              a \in Leaves, p \in Projects, q \in Projects}
    \cup {<<2>> \o s \o <<0>> \o t : s \in Streams(1), t \in Trailers}

\* The buffers that are cut short: every record of Catalogue and Rare is
\* the last one of some of them.
Shortened ==
    {<<2>> \o s \o t : s \in Streams(MaxOps - 1), t \in {<<0>>, <<>>}}
    \cup {<<2>> \o s \o c \o t :
              s \in Streams(MaxOps - 2), c \in Rare, t \in {<<0>>, <<>>}}
    \cup {Example}

Cut == {SubSeq(w, 1, Len(w) - k) : w \in {x \in Shortened : Len(x) > MaxCut},
                                    k \in 1..MaxCut}

\* base64.StdEncoding's encoding of a byte sequence, as character codes.
RECURSIVE Encode(_)
Encode(b) ==
    IF Len(b) = 0 THEN <<>>
    ELSE IF Len(b) = 1 THEN
        <<b[1] \div 4, (b[1] % 4) * 16, PadChar, PadChar>>
    ELSE IF Len(b) = 2 THEN
        <<b[1] \div 4, (b[1] % 4) * 16 + (b[2] \div 16), (b[2] % 16) * 4,
          PadChar>>
    ELSE
        <<b[1] \div 4, (b[1] % 4) * 16 + (b[2] \div 16),
          (b[2] % 16) * 4 + (b[3] \div 64), b[3] % 64>>
        \o Encode(SubSeq(b, 4, Len(b)))

\* Strings that differ from a valid gist g in one place.
Corrupted(g) ==
    {[g EXCEPT ![i] = BadChar] : i \in 1..Len(g)}
    \cup {[g EXCEPT ![i] = PadChar] : i \in 1..Len(g)}
    \cup {SubSeq(g, 1, Len(g) - 1) : k \in {1}}
    \cup {g \o <<PadChar>>, g \o <<0>>, <<BadChar>>}

Small == {<<2>> \o s \o <<0>> : s \in Streams(1)}

Lookups == {"nil", "fn"}

Init ==
    /\ \/ /\ gist \in {Encode(w) : w \in Whole}
          /\ tableLookup \in Lookups
          /\ indexLookup = tableLookup
       \/ /\ gist \in {Encode(<<2>> \o s \o <<0>>) : s \in Streams(MaxOps - 1)}
          /\ tableLookup \in Lookups
          /\ indexLookup \in Lookups \ {tableLookup}
       \/ /\ gist \in {Encode(w) : w \in Cut}
          /\ tableLookup = "fn"
          /\ indexLookup = "fn"
       \/ /\ gist \in UNION {Corrupted(Encode(w)) : w \in Small}
          /\ tableLookup = "fn"
          /\ indexLookup = "fn"
    /\ pc = "start"
    /\ buf = <<>>
    /\ pos = 0
    /\ nodeStack = <<>>
    /\ checks = <<>>
    /\ outcome = "running"
    /\ node = Nil
    /\ calls = <<>>
    /\ pushLog = <<>>
    /\ idLog = <<>>
    /\ opsRead = 0
    /\ failedRead = FALSE
    /\ atEnd = "none"
    /\ output = <<>>
    /\ loc = <<>>
    /\ dec = <<>>

---------------------------------------------------------------------------
(* DecodePlanGist.                                                         *)

\* History: the identifiers of one operator, tagged with the index the
\* operator's node has (or would have had) in pushLog.
Tagged(ids, k) ==
    [j \in 1..Len(ids) |->
        [kind |-> ids[j].kind, tableID |-> ids[j].tableID, id |-> ids[j].id,
         at |-> k]]

\* b, err := base64.StdEncoding.DecodeString(gist); d.buf.Reset(b)
Decoded(res) ==
    IF ~res.ok
    THEN /\ outcome' = "base64"
         /\ pc' = "done"
         /\ UNCHANGED buf
    ELSE /\ buf' = res.bytes
         /\ pc' = "version"
         /\ UNCHANGED outcome

Base64Step ==
    /\ pc = "start"
    /\ Decoded(DecodeString(gist))
    /\ UNCHANGED <<gist, tableLookup, indexLookup, loc, dec, output, pos, nodeStack, checks,
                   node, calls, pushLog, idLog, opsRead, failedRead, atEnd>>

\* ver := d.decodeInt(); if ver != gistVersion { return nil, error }
Versioned(ver) ==
    /\ pos' = ver.pos
    /\ failedRead' = ~ver.ok
    /\ IF ~ver.ok THEN outcome' = "panic" /\ pc' = "done"
       ELSE IF ver.val # gistVersion THEN outcome' = "version" /\ pc' = "done"
       ELSE pc' = "loop" /\ UNCHANGED outcome

VersionStep ==
    /\ pc = "version"
    /\ Versioned(decodeInt(buf, Reader(pos)))
    /\ UNCHANGED <<gist, tableLookup, indexLookup, loc, dec, output, buf, nodeStack, checks,
                   node, calls, pushLog, idLog, opsRead, atEnd>>

\* One iteration of the loop: op := d.decodeOp(), the break on unknownOp,
\* the collection of a check.
Looped(d) ==
    /\ pos' = d.pos
    /\ calls' = calls \o d.calls
    /\ idLog' = idLog \o Tagged(d.ids, Len(pushLog) + 1)
    /\ opsRead' = IF d.kind = "eof" THEN opsRead ELSE opsRead + 1
    /\ failedRead' = ~d.ok
    /\ CASE d.kind = "panic" ->
             /\ outcome' = "panic"
             /\ pc' = "done"
             /\ UNCHANGED <<nodeStack, checks, pushLog, atEnd>>
         [] d.kind \in {"eof", "terminator"} ->
             /\ pc' = "finish"
             /\ atEnd' = d.kind
             /\ UNCHANGED <<nodeStack, checks, pushLog, outcome>>
         [] OTHER ->
             /\ pushLog' = Append(pushLog, d.node)
             /\ IF d.op = errorIfRowsOp
                THEN /\ checks' = collectCheck(checks, popChild(d.stack).n)
                     /\ nodeStack' = popChild(d.stack).s
                ELSE /\ nodeStack' = d.stack
                     /\ UNCHANGED checks
             /\ UNCHANGED <<pc, outcome, atEnd>>

LoopStep ==
    /\ pc = "loop"
    /\ \E d \in {decodeOp(buf, pos, nodeStack, tableLookup, indexLookup)} :
          Looped(d)
    /\ UNCHANGED <<gist, tableLookup, indexLookup, loc, dec, output, buf, node>>

\* root := d.popChild(); the wrapper when checks were collected; return.
FinishStep ==
    /\ pc = "finish"
    /\ nodeStack' = popChild(nodeStack).s
    /\ node' = assemble(popChild(nodeStack).n, checks)
    /\ outcome' = "ok"
    /\ pc' = "done"
    /\ UNCHANGED <<gist, tableLookup, indexLookup, loc, dec, output, buf, pos, checks, calls,
                   pushLog, idLog, opsRead, failedRead, atEnd>>

\* output := gist.FormatPlan(node), as main does after a decode without
\* error.
FormatStep ==
    /\ pc = "done"
    /\ outcome = "ok"
    /\ output' = FormatPlan(node)
    /\ pc' = "formatted"
    /\ UNCHANGED <<gist, tableLookup, indexLookup, buf, pos, nodeStack,
                   checks, outcome, node, calls, pushLog, idLog, opsRead,
                   failedRead, atEnd, loc, dec>>

Next == Base64Step \/ VersionStep \/ LoopStep \/ FinishStep \/ FormatStep

Spec == Init /\ [][Next]_vars

\* The buffers of the runs followed to their end: streams, whole and
\* without terminator, other versions, every record alone, whole and cut
\* short, and the gist of the usage text.
Alone1 == {<<2>> \o c \o <<0>> : c \in Catalogue \cup Rare}

Followed ==
    {<<2>> \o s \o t : s \in Streams(MaxOps - 1), t \in {<<0>>, <<>>}}
    \cup {v \o s \o <<0>> : v \in Versions, s \in Streams(1)}
    \cup Alone1
    \cup {SubSeq(w, 1, Len(w) - k) : w \in {x \in Alone1 : Len(x) > MaxCut},
                                     k \in 1..MaxCut}
    \cup {Example}

InitLive ==
    /\ \/ gist \in {Encode(w) : w \in Followed}
       \/ gist \in Corrupted(Encode(<<2, 3, 0>>))
    /\ tableLookup = "fn"
    /\ indexLookup = "fn"
    /\ pc = "start"
    /\ buf = <<>>
    /\ pos = 0
    /\ nodeStack = <<>>
    /\ checks = <<>>
    /\ outcome = "running"
    /\ node = Nil
    /\ calls = <<>>
    /\ pushLog = <<>>
    /\ idLog = <<>>
    /\ opsRead = 0
    /\ failedRead = FALSE
    /\ atEnd = "none"
    /\ output = <<>>
    /\ loc = <<>>
    /\ dec = <<>>

\* The steps of DecodePlanGist.
Decode == Base64Step \/ VersionStep \/ LoopStep \/ FinishStep

\* DecodePlanGist is one sequential call: a step of it that can be taken
\* is taken.
SpecLive == InitLive /\ [][Next]_vars /\ WF_vars(Decode)

---------------------------------------------------------------------------
(* Two concurrent invocations of DecodePlanGist.  loc[i] holds the locals  *)
(* of invocation i (its argument, its position in the function, checks and *)
(* the result) and dec[k] a planGistDecoder value (buf with its read       *)
(* position, nodeStack).  An invocation takes one step at a time: the      *)
(* base64 decode, the version read, one loop iteration, the return.  Both  *)
(* invocations are given the resolvers of TestDecodePlanGistWithLookup.    *)

Invocations == {1, 2}

\* Mutant of DecoderOf: one package-level decoder serves every invocation.
DecoderOf_Package(i) == 1

\* The decoder invocation i works on: var d planGistDecoder is a local of
\* DecodePlanGist, so every invocation has its own.
DecoderOf(i) == i

\* The gists the concurrent invocations are given.
TwoGists ==
    {Encode(w) : w \in {Example,
                        <<2, 2, 4, 2, 42, 0>>,
                        <<2, 1, 4, 4, 1, 0, 0, 0, 2, 3, 3, 0>>,
                        <<2, 2, 4, 2, 1, 224, 1, 2, 0, 0, 2, 0, 0, 16, 0>>,
                        <<2, 2, 4, 2, 1, 224, 1>>,
                        <<4, 2, 4, 2, 0>>}}
    \cup {<<0, 32, BadChar, 0>>}

NewLocals(g) ==
    [gist |-> g, pc |-> "start", checks |-> <<>>, outcome |-> "running",
     node |-> Nil]

NewDecoder == [buf |-> <<>>, pos |-> 0, nodeStack |-> <<>>]

\* The steps, each as the pair [l, d] of the locals and the decoder after
\* the step.
Decoded2(l, d, res) ==
    IF ~res.ok
    THEN [l |-> [l EXCEPT !.outcome = "base64", !.pc = "done"], d |-> d]
    ELSE [l |-> [l EXCEPT !.pc = "version"],
          d |-> [d EXCEPT !.buf = res.bytes, !.pos = 0]]

Versioned2(l, d, ver) ==
    [l |-> IF ~ver.ok THEN [l EXCEPT !.outcome = "panic", !.pc = "done"]
           ELSE IF ver.val # gistVersion
           THEN [l EXCEPT !.outcome = "version", !.pc = "done"]
           ELSE [l EXCEPT !.pc = "loop"],
     d |-> [d EXCEPT !.pos = ver.pos]]

Looped2(l, d, x) ==
    CASE x.kind = "panic" ->
            [l |-> [l EXCEPT !.outcome = "panic", !.pc = "done"],
             d |-> [d EXCEPT !.pos = x.pos]]
      [] x.kind \in {"eof", "terminator"} ->
            [l |-> [l EXCEPT !.pc = "finish"], d |-> [d EXCEPT !.pos = x.pos]]
      [] OTHER ->
            IF x.op = errorIfRowsOp
            THEN [l |-> [l EXCEPT !.checks =
                                     collectCheck(@, popChild(x.stack).n)],
                  d |-> [d EXCEPT !.pos = x.pos,
                                  !.nodeStack = popChild(x.stack).s]]
            ELSE [l |-> l,
                  d |-> [d EXCEPT !.pos = x.pos, !.nodeStack = x.stack]]

Finished2(l, d) ==
    [l |-> [l EXCEPT !.node = assemble(popChild(d.nodeStack).n, l.checks),
                     !.outcome = "ok", !.pc = "done"],
     d |-> [d EXCEPT !.nodeStack = popChild(d.nodeStack).s]]

\* The next step of an invocation with locals l on decoder d.
StepOf(l, d) ==
    CASE l.pc = "start" -> Decoded2(l, d, DecodeString(l.gist))
      [] l.pc = "version" -> Versioned2(l, d, decodeInt(d.buf, Reader(d.pos)))
      [] l.pc = "loop" ->
            Looped2(l, d, decodeOp(d.buf, d.pos, d.nodeStack, "fn", "fn"))
      [] l.pc = "finish" -> Finished2(l, d)

InitTwo ==
    /\ loc \in [Invocations -> {NewLocals(g) : g \in TwoGists}]
    /\ dec = [i \in Invocations |-> NewDecoder]
    /\ gist = <<>>
    /\ tableLookup = "fn"
    /\ indexLookup = "fn"
    /\ pc = "idle"
    /\ buf = <<>>
    /\ pos = 0
    /\ nodeStack = <<>>
    /\ checks = <<>>
    /\ outcome = "running"
    /\ node = Nil
    /\ calls = <<>>
    /\ pushLog = <<>>
    /\ idLog = <<>>
    /\ opsRead = 0
    /\ failedRead = FALSE
    /\ atEnd = "none"
    /\ output = <<>>

\* Invocation i takes its next step.
InvocationStep(i) ==
    /\ loc[i].pc # "done"
    /\ loc' = [loc EXCEPT ![i] = StepOf(loc[i], dec[DecoderOf(i)]).l]
    /\ dec' = [dec EXCEPT ![DecoderOf(i)] =
                              StepOf(loc[i], dec[DecoderOf(i)]).d]
    /\ UNCHANGED <<gist, tableLookup, indexLookup, pc, buf, pos, nodeStack,
                   checks, outcome, node, calls, pushLog, idLog, opsRead,
                   failedRead, atEnd, output>>

NextTwo == \E i \in Invocations : InvocationStep(i)

SpecTwo == InitTwo /\ [][NextTwo]_vars

---------------------------------------------------------------------------
(* Helpers of the properties.                                              *)

Range(f) == {f[k] : k \in DOMAIN f}

\* Whether tree n holds a nil child at any depth.
RECURSIVE HasNilChild(_)
HasNilChild(n) ==
    /\ n # Nil
    /\ \E k \in DOMAIN n.children :
          n.children[k] = Nil \/ HasNilChild(n.children[k])

\* An operator popped a child from an empty stack: some node was built
\* with a nil child.
Underflowed == \E k \in DOMAIN pushLog : Nil \in Range(pushLog[k].children)

---------------------------------------------------------------------------
(* The properties.                                                         *)

\* C1: stack underflow is a decode failure: when an operator with declared
\* children was decoded on a stack holding fewer nodes, DecodePlanGist
\* does not succeed, and no tree it returns contains a nil child.
C1_UnderflowFails ==
    /\ (pc = "done" /\ Underflowed) => outcome # "ok"
    /\ outcome = "ok" => ~HasNilChild(node)

\* C2: on a successful decode the stack holds exactly one node when the
\* terminator is read, and is empty after the root is popped.
C2_OneNodeAtTerminator ==
    /\ (pc = "finish" /\ atEnd = "terminator") => Len(nodeStack) = 1
    /\ (outcome = "ok" /\ atEnd = "terminator") => nodeStack = <<>>

\* C3: whenever DecodePlanGist returns without an error the returned node
\* is non-nil, also for an empty operator stream.
C3_RootNonNil == outcome = "ok" => node # Nil

\* C4: a buffer that ends where an operator code is expected, without a
\* terminator, makes DecodePlanGist fail instead of returning a tree.
C4_MissingTerminatorFails == (pc = "done" /\ atEnd = "eof") => outcome # "ok"

\* C5: once a primitive read of the version or of an operator body has run
\* past the end of the buffer, the call has failed: DecodePlanGist is left
\* by a panic, no node is returned and no further step of the decode runs.
C5_TruncationFailsAtomically ==
    failedRead =>
        /\ pc = "done"
        /\ outcome = "panic"
        /\ node = Nil
        /\ ~ENABLED Next

\* C5 witness: a read fails inside the body of a later operator, after
\* earlier operators were decoded and pushed.
C5_Witness ==
    /\ failedRead
    /\ pushLog # <<>>
    /\ nodeStack # <<>>
    /\ pos = Len(buf)

\* The value of the buffer's leading signed varint, read off the bytes.
LeadingVersion == decodeInt(buf, Reader(0))

\* C6: a buffer whose leading signed varint is not 1 yields a version
\* error and a nil node, and then no operator code has been read, no node
\* pushed and no resolver called.
C6_VersionGate ==
    (pc \notin {"start", "version"} /\ LeadingVersion.ok
        /\ LeadingVersion.val # 1) =>
        /\ pc = "done"
        /\ outcome = "version"
        /\ node = Nil
        /\ pos = LeadingVersion.pos
        /\ opsRead = 0
        /\ pushLog = <<>>
        /\ nodeStack = <<>>
        /\ calls = <<>>
        /\ idLog = <<>>

\* C6 witness: a version error on a buffer whose next byte is a scan, with
\* both resolvers supplied.
C6_Witness ==
    /\ outcome = "version"
    /\ pos < Len(buf)
    /\ buf[pos + 1] = scanOp
    /\ tableLookup = "fn"
    /\ indexLookup = "fn"

\* Standard padded base64, stated on the string: a multiple of four
\* characters, all of the alphabet except for one or two '=' at the very
\* end.
ValidBase64(s) ==
    /\ Len(s) % 4 = 0
    /\ \A i \in 1..Len(s) :
          \/ IsAlpha(s[i])
          \/ s[i] = PadChar /\ i = Len(s) /\ IsAlpha(s[i - 1])
          \/ s[i] = PadChar /\ i = Len(s) - 1 /\ s[Len(s)] = PadChar
          \/ s[i] = PadChar /\ i = Len(s) /\ s[i - 1] = PadChar

IsCheck(n) == n.op = errorIfRowsOp

ChecksInStreamOrder == SelectSeq(pushLog, IsCheck)

\* The node on top of the stack, nil when the stack is empty.
Top(stack) == IF stack = <<>> THEN Nil ELSE stack[Len(stack)]

\* C8: the return step of a successful decode yields, when n >= 1
\* error-if-rows nodes were decoded, a wrapper with operator code 0, the
\* single attribute checks = n and the children root, check_1 .. check_n in
\* stream order; when n = 0 it yields the root itself.
C8_CheckWrapping ==
    [][pc = "finish" =>
        /\ outcome' = "ok"
        /\ IF Len(ChecksInStreamOrder) >= 1
           THEN /\ node'.op = unknownOp
                /\ DOMAIN node'.args = {"checks"}
                /\ node'.args.checks = Len(ChecksInStreamOrder)
                /\ Len(node'.children) = 1 + Len(ChecksInStreamOrder)
                /\ node'.children[1] = Top(nodeStack)
                /\ \A k \in 1..Len(ChecksInStreamOrder) :
                      node'.children[k + 1] = ChecksInStreamOrder[k]
           ELSE node' = Top(nodeStack)]_vars

\* C8 witness: a successful decode that returns the wrapper over two
\* different checks.
C8_Witness ==
    /\ outcome = "ok"
    /\ Len(ChecksInStreamOrder) = 2
    /\ ChecksInStreamOrder[1] # ChecksInStreamOrder[2]
    /\ node.op = unknownOp
    /\ Len(node.children) = 3

\* Every node DecodePlanGist has produced: the nodes decodeOp pushed and
\* the node returned.
Produced ==
    Range(pushLog) \cup (IF outcome = "ok" /\ node # Nil THEN {node} ELSE {})

\* C9 as stated: any two nodes with the same operator code have the same
\* number of children and the same attribute keys.
C9_ShapeByOperator ==
    \A n1, n2 \in Produced :
        n1.op = n2.op =>
            /\ Len(n1.children) = Len(n2.children)
            /\ DOMAIN n1.args = DOMAIN n2.args

\* The shape of each operator, as a table.
ArmOps ==
    {scanOp, valuesOp, filterOp, invertedFilterOp, simpleProjectOp,
     serializingProjectOp, renderOp, hashJoinOp, mergeJoinOp, groupByOp,
     scalarGroupByOp, distinctOp, sortOp, limitOp, topKOp, indexJoinOp,
     lookupJoinOp, invertedJoinOp, unionAllOp, hashSetOpOp, streamingSetOpOp,
     insertOp, updateOp, deleteOp, upsertOp, errorIfRowsOp}

ArmArity(op) ==
    IF op \in {scanOp, valuesOp} THEN 0
    ELSE IF op \in {hashJoinOp, mergeJoinOp, unionAllOp, hashSetOpOp,
                    streamingSetOpOp} THEN 2
    ELSE 1

FixedKeys(op) ==
    CASE op = scanOp -> {"table", "index", "table_id", "index_id"}
      [] op = valuesOp -> {"rows", "columns"}
      [] op = renderOp -> {"columns"}
      [] op = hashJoinOp -> {"type", "left_eq_cols", "right_eq_cols"}
      [] op = mergeJoinOp -> {"type"}
      [] op = topKOp -> {"k"}
      [] op \in {indexJoinOp, insertOp, updateOp, deleteOp, upsertOp} ->
            {"table", "table_id"}
      [] op \in {lookupJoinOp, invertedJoinOp} -> {"type", "table", "index"}
      [] op = unknownOp -> {"checks"}
      [] OTHER -> {}

ValueKeys(op) ==
    CASE op = scanOp -> {"spans", "inverted_constraint", "limit"}
      [] op = hashJoinOp -> {"left_key", "right_key"}
      [] OTHER -> {}

\* C9, amended: the operator code fixes the number of children of every
\* node with a decode arm (nil children counted) and its attribute keys up
\* to the value-dependent keys of scan (spans, inverted_constraint, limit)
\* and hash join (left_key, right_key); a node of a non-zero code without
\* an arm has no attributes and one child or none; the check wrapper
\* (code 0) has the one key checks, a root and at least one check.
C9_ShapeUpToValueKeys ==
    \A n \in Produced :
        /\ FixedKeys(n.op) \subseteq DOMAIN n.args
        /\ DOMAIN n.args \subseteq FixedKeys(n.op) \cup ValueKeys(n.op)
        /\ n.op \in ArmOps => Len(n.children) = ArmArity(n.op)
        /\ n.op \notin ArmOps \cup {unknownOp} => Len(n.children) \in {0, 1}
        /\ n.op = unknownOp => Len(n.children) >= 2

\* C9 witness: two scans with different attribute keys, and two nodes of
\* one code without an arm with different numbers of children.
C9_Witness ==
    /\ \E n1, n2 \in Produced :
          n1.op = scanOp /\ n2.op = scanOp /\ DOMAIN n1.args # DOMAIN n2.args
    /\ \E n \in Produced : n.op \notin ArmOps /\ Len(n.children) = 1

\* The name decodeTable and decodeIndex store: the resolver's answer ret
\* when a resolver is supplied and ret is not empty, "?" otherwise.
DisplayName(lookup, ret) == IF lookup # "nil" /\ ret # "" THEN ret ELSE "?"

\* The table identifier decoded in the operator with index at in pushLog.
TableIdAt(at) ==
    (CHOOSE e \in Range(idLog) : e.kind = "table" /\ e.at = at).id

Supplied(e) ==
    \/ e.kind = "table" /\ tableLookup # "nil"
    \/ e.kind = "index" /\ indexLookup # "nil"

\* C10: the name stored on a node for a decoded table or index identifier
\* is the resolver's answer when a resolver is supplied and answers with a
\* non-empty string, and "?" otherwise; the resolvers are called exactly
\* for the identifiers decoded, the index resolver with the table
\* identifier of the same operator as its first argument.
C10_NameResolution ==
    /\ \A j \in DOMAIN idLog :
          idLog[j].at <= Len(pushLog) =>
             IF idLog[j].kind = "table"
             THEN pushLog[idLog[j].at].args.table =
                     DisplayName(tableLookup, TableLookupFn(idLog[j].id))
             ELSE pushLog[idLog[j].at].args.index =
                     DisplayName(indexLookup,
                                 IndexLookupFn(TableIdAt(idLog[j].at),
                                               idLog[j].id))
    /\ Len(calls) = Len(SelectSeq(idLog, Supplied))
    /\ \A k \in DOMAIN calls :
          calls[k] = [fn |-> SelectSeq(idLog, Supplied)[k].kind,
                      tableID |-> TableIdAt(SelectSeq(idLog, Supplied)[k].at),
                      id |-> SelectSeq(idLog, Supplied)[k].id]

\* C10 witness: with both resolvers supplied, one node stores the resolved
\* names of table 112 and its index 1 and another the placeholder for a
\* table the resolver does not know.
C10_Witness ==
    /\ tableLookup = "fn"
    /\ indexLookup = "fn"
    /\ \E n \in Range(pushLog) :
          /\ n.op \in {scanOp, lookupJoinOp}
          /\ n.args.table = "users"
          /\ n.args.index = "users_pkey"
    /\ \E n \in Range(pushLog) :
          /\ "table" \in DOMAIN n.args
          /\ n.args.table = "?"

---------------------------------------------------------------------------
(* The formatter's properties.                                             *)

\* The non-nil nodes of tree n, at every depth.
RECURSIVE TreeNodes(_)
TreeNodes(n) ==
    IF n = Nil THEN {}
    ELSE {n} \cup UNION {TreeNodes(n.children[k]) : k \in DOMAIN n.children}

\* Whether line ends with the pieces of suffix.
EndsWith(line, suffix) ==
    /\ Len(line) >= Len(suffix)
    /\ SubSeq(line, Len(line) - Len(suffix) + 1, Len(line)) = suffix

Mutations == {insertOp, updateOp, deleteOp, upsertOp}

\* C11: without resolvers the formatted plan names tables and indexes by
\* their decoded numbers: the line of a mutation node is "table: <tableID>"
\* and the line of a scan node "table: <tableID>@<indexID>".
C11_NumericNamesWithoutResolvers ==
    (pc = "formatted" /\ tableLookup = "nil" /\ indexLookup = "nil") =>
        \A m \in TreeNodes(node) :
            /\ m.op \in Mutations =>
                  \E j \in DOMAIN output :
                      EndsWith(output[j],
                               <<"table: ", ToString(m.args.table_id)>>)
            /\ m.op = scanOp =>
                  \E j \in DOMAIN output :
                      EndsWith(output[j],
                               <<"table: ", ToString(m.args.table_id), "@",
                                 ToString(m.args.index_id)>>)

Projections == {simpleProjectOp, serializingProjectOp}

\* Tree n with every projection replaced by its first child (by nothing
\* when it has none), at every depth.
RECURSIVE Strip(_)
Strip(n) ==
    IF n = Nil THEN Nil
    ELSE IF n.op \in Projections
    THEN IF Len(n.children) > 0 THEN Strip(n.children[1]) ELSE Nil
    ELSE [n EXCEPT !.children = [k \in DOMAIN n.children |->
                                    Strip(n.children[k])]]

\* The number of nodes of tree n that are not projections.
RECURSIVE SumVisible(_, _)
Visible(n) ==
    IF n = Nil THEN 0
    ELSE (IF n.op \in Projections THEN 0 ELSE 1) + SumVisible(n.children, 1)

SumVisible(children, k) ==
    IF k > Len(children) THEN 0
    ELSE Visible(children[k]) + SumVisible(children, k + 1)

\* The lines of out that hold a node marker.
MarkerLines(out) == {j \in DOMAIN out : \E i \in DOMAIN out[j] : out[j][i] = Bullet}

\* C12: projections are display-transparent.  No line of the formatted
\* plan is the marker line of a simple project or serializing project,
\* the plan has one marker line per node that is not a projection, and it
\* is the text of the tree in which every projection, at any depth and in
\* any chain, is replaced by its first child.
C12_ProjectionsTransparent ==
    pc = "formatted" =>
        /\ \A j \in DOMAIN output : \A i \in DOMAIN output[j] :
              output[j][i] = Bullet =>
                  output[j][i + 1] \notin {"simple project",
                                           "serializing project"}
        /\ Cardinality(MarkerLines(output)) = Visible(node)
        /\ node # Nil =>
              output = Prefixed(SplitLines(formatNode(Strip(node))),
                                Margin, Margin)

\* C12 witness: a formatted tree with a chain of two projections, one of
\* them a serializing project, over a node that is shown.
C12_Witness ==
    /\ pc = "formatted"
    /\ \E m \in TreeNodes(node) :
          /\ m.op \in Projections
          /\ m.children[1] # Nil
          /\ m.children[1].op \in Projections
          /\ m.children[1].op # m.op
          /\ m.children[1].children[1] # Nil
    /\ Cardinality(MarkerLines(output)) >= 1

---------------------------------------------------------------------------
(* Properties of the operator bodies and of the stack.                     *)

\* The node a loop step has just pushed.
Last(log) == log[Len(log)]

\* The shortest body the claim allows a mutation operator whose code is at
\* position p: a table identifier, one integer-set and the auto-commit
\* boolean.
ShortestMutation(p) ==
    decodeBool(buf, decodeIntSet(buf, decodeID(buf, Reader(p + 1))))

\* C16: a loop step that decodes an insert, update, delete or upsert reads
\* a table identifier, at least one integer-set and the auto-commit boolean,
\* so the read position afterwards is past them, and it pops exactly one
\* child.
C16_MutationBodies ==
    [][(pc = "loop" /\ pushLog' # pushLog /\ Last(pushLog').op \in Mutations)
        => /\ ShortestMutation(pos).ok
           /\ pos' >= ShortestMutation(pos).pos
           /\ Len(Last(pushLog').children) = 1
           /\ nodeStack # <<>> =>
                 /\ Last(pushLog').children[1] = Top(nodeStack)
                 /\ nodeStack' = Append(SubSeq(nodeStack, 1, Len(nodeStack) - 1),
                                        Last(pushLog'))]_vars

BinaryOps ==
    {hashJoinOp, mergeJoinOp, unionAllOp, hashSetOpOp, streamingSetOpOp}

\* C17: a loop step that decodes a hash join, merge join, union all, hash
\* set op or streaming set op on a stack of at least two nodes builds the
\* children [left, right], right the node that was on top of the stack and
\* left the node beneath it, and leaves every entry below those two alone.
C17_BinaryChildOrder ==
    [][(pc = "loop" /\ pushLog' # pushLog /\ Last(pushLog').op \in BinaryOps
            /\ Len(nodeStack) >= 2)
        => /\ Last(pushLog').children =
                 <<nodeStack[Len(nodeStack) - 1], nodeStack[Len(nodeStack)]>>
           /\ nodeStack' = Append(SubSeq(nodeStack, 1, Len(nodeStack) - 2),
                                  Last(pushLog'))]_vars

\* C17 witness: a binary operator decoded over three different nodes, the
\* lowest of which stays on the stack beneath the new node.
C17_Witness ==
    /\ pc = "loop"
    /\ Len(pushLog) = 4
    /\ Last(pushLog).op \in BinaryOps
    /\ Last(pushLog).children = <<pushLog[2], pushLog[3]>>
    /\ pushLog[2].args # pushLog[3].args
    /\ pushLog[1].args # pushLog[2].args
    /\ nodeStack = <<pushLog[1], pushLog[4]>>

\* The nodes of all trees of a sequence of trees.
ForestNodes(trees) == UNION {TreeNodes(trees[k]) : k \in DOMAIN trees}

\* C18: whenever the next operator code is about to be read, no node on
\* the decode stack, at any depth, is an error-if-rows node; and in a
\* returned tree an error-if-rows node is a child only of the wrapper (the
\* root, code 0), at a position after the first.
C18_ChecksOffTheStack ==
    /\ pc = "loop" =>
          \A m \in ForestNodes(nodeStack) : m.op # errorIfRowsOp
    /\ outcome = "ok" =>
          /\ node # Nil => node.op # errorIfRowsOp
          /\ \A m \in TreeNodes(node) : \A k \in DOMAIN m.children :
                (m.children[k] # Nil /\ m.children[k].op = errorIfRowsOp) =>
                    m = node /\ m.op = unknownOp /\ k >= 2

\* C18 witness: a decode returns the wrapper after an operator with a
\* child was decoded right after a check and did not get the check as its
\* child.
C18_Witness ==
    /\ outcome = "ok"
    /\ node # Nil
    /\ node.op = unknownOp
    /\ \E k \in 1..(Len(pushLog) - 1) :
          /\ pushLog[k].op = errorIfRowsOp
          /\ pushLog[k + 1].op \in {filterOp, renderOp, updateOp}
          /\ pushLog[k + 1].children[1] # pushLog[k]

\* The number of places at which a non-nil node occurs in tree n.
RECURSIVE SumPlaces(_, _)
Places(n) == IF n = Nil THEN 0 ELSE 1 + SumPlaces(n.children, 1)

SumPlaces(trees, k) ==
    IF k > Len(trees) THEN 0
    ELSE Places(trees[k]) + SumPlaces(trees, k + 1)

Addrs(trees) == {m.addr : m \in ForestNodes(trees)}

\* No node occurs at two places of the trees: as many places as nodes.
NoSharing(trees) == SumPlaces(trees, 1) = Cardinality(Addrs(trees))

\* C19: every node is pushed once and popped at most once.  The nodes
\* pushed are pairwise different objects, every stack entry is a pushed
\* node, no node occurs at two places of the trees the decoder holds (the
\* stack and the checks), and in a returned tree every node has one
\* parent and one position.
C19_ExclusiveOwnership ==
    /\ \A i, j \in DOMAIN pushLog : i # j => pushLog[i].addr # pushLog[j].addr
    /\ \A k \in DOMAIN nodeStack : nodeStack[k] \in Range(pushLog)
    /\ pc \in {"loop", "finish"} => NoSharing(nodeStack \o checks)
    /\ outcome = "ok" => NoSharing(<<node>>)

\* C19 witness: a returned tree whose root has two children that are
\* equal in operator, attributes and children and are two objects.
C19_Witness ==
    /\ outcome = "ok"
    /\ node # Nil
    /\ Len(node.children) = 2
    /\ node.children[1] # Nil
    /\ node.children[2] # Nil
    /\ node.children[1].op = node.children[2].op
    /\ node.children[1].args = node.children[2].args
    /\ node.children[1].children = node.children[2].children
    /\ node.children[1].addr # node.children[2].addr

---------------------------------------------------------------------------
(* The order of the resolver calls.                                        *)

\* The resolver calls the identifier fields of node n ask for, in the
\* order of the fields in the stream; known says whether the node keeps the
\* identifiers.

FieldCalls(n) ==
    CASE n.op = scanOp ->
            <<[fn |-> "table", known |-> TRUE, tableID |-> n.args.table_id,
               id |-> n.args.table_id],
              [fn |-> "index", known |-> TRUE, tableID |-> n.args.table_id,
               id |-> n.args.index_id]>>
      [] n.op \in {lookupJoinOp, invertedJoinOp} ->
            <<[fn |-> "table", known |-> FALSE, tableID |-> 0, id |-> 0],
              [fn |-> "index", known |-> FALSE, tableID |-> 0, id |-> 0]>>
      [] n.op \in {indexJoinOp} \cup Mutations ->
            <<[fn |-> "table", known |-> TRUE, tableID |-> n.args.table_id,
               id |-> n.args.table_id]>>
      [] OTHER -> <<>>

HasResolver(c) ==
    \/ c.fn = "table" /\ tableLookup # "nil"
    \/ c.fn = "index" /\ indexLookup # "nil"

\* The calls of the operators decoded, in the order of pushLog.
RECURSIVE StreamCalls(_)
StreamCalls(k) ==
    IF k = 0 THEN <<>>
    ELSE StreamCalls(k - 1) \o SelectSeq(FieldCalls(pushLog[k]), HasResolver)

Matches(call, want) ==
    /\ call.fn = want.fn
    /\ want.known => call.id = want.id /\ call.tableID = want.tableID
    /\ call.fn = "table" => call.tableID = call.id

\* The calls an operator whose body failed may have made before the
\* failure: the table resolver, then the index resolver.
PartialCalls ==
    SelectSeq(<<[fn |-> "table"], [fn |-> "index"]>>, HasResolver)

\* C20: the resolver invocations of a decode are the table and index
\* identifier fields in stream order: operator by operator in the order
\* decoded, the table resolver before the index resolver within an operator
\* (the index resolver with that table's identifier); an operator whose
\* body fails adds at most its calls up to the failure; and no resolver is
\* invoked once the loop has ended, by the terminator or by a failure.
C20_ResolverCallOrder ==
    /\ [](/\ Len(calls) >= Len(StreamCalls(Len(pushLog)))
          /\ \A k \in 1..Len(StreamCalls(Len(pushLog))) :
                Matches(calls[k], StreamCalls(Len(pushLog))[k])
          /\ outcome # "panic" =>
                Len(calls) = Len(StreamCalls(Len(pushLog)))
          /\ outcome = "panic" =>
                /\ Len(calls) - Len(StreamCalls(Len(pushLog)))
                      <= Len(PartialCalls)
                /\ \A k \in 1..(Len(calls) - Len(StreamCalls(Len(pushLog)))) :
                      calls[Len(StreamCalls(Len(pushLog))) + k].fn =
                          PartialCalls[k].fn
          /\ \A k \in 2..Len(calls) :
                calls[k].fn = "index" /\ tableLookup # "nil" =>
                    /\ calls[k - 1].fn = "table"
                    /\ calls[k].tableID = calls[k - 1].id)
    /\ [][pc # "loop" => calls' = calls]_vars

\* C20 witness: a finished decode with both resolvers in which a scan and
\* then a second operator with a table and an index had their identifiers
\* resolved, four calls in all.
C20_Witness ==
    /\ outcome = "ok"
    /\ tableLookup = "fn"
    /\ indexLookup = "fn"
    /\ Len(pushLog) >= 2
    /\ pushLog[1].op = scanOp
    /\ pushLog[2].op \in {scanOp, lookupJoinOp}
    /\ Len(calls) = 4
    /\ calls[2].id # calls[1].id

---------------------------------------------------------------------------
(* Concurrent invocations.                                                 *)

\* The locals of an invocation that runs alone from locals l on decoder d,
\* when it has returned.
RECURSIVE RunAlone(_, _)
RunOn(step) == RunAlone(step.l, step.d)

RunAlone(l, d) ==
    IF l.pc = "done" THEN l
    ELSE RunOn(StepOf(l, d))

Alone(g) == RunAlone(NewLocals(g), NewDecoder)

\* C15: in every interleaving of two invocations, an invocation that has
\* returned has the outcome and the node it has when it runs alone on its
\* gist.
C15_DecodeIsolation ==
    \A i \in Invocations :
        loc[i].pc = "done" =>
            /\ loc[i].outcome = Alone(loc[i].gist).outcome
            /\ loc[i].node = Alone(loc[i].gist).node

\* C15 witness: invocation 1 has returned a tree while invocation 2, given
\* another gist, is inside its loop with nodes on its stack and operators
\* still to read.
C15_Witness ==
    /\ loc[1].pc = "done"
    /\ loc[1].outcome = "ok"
    /\ loc[1].node # Nil
    /\ loc[2].pc = "loop"
    /\ loc[2].gist # loc[1].gist
    /\ dec[2].nodeStack # <<>>
    /\ dec[2].pos < Len(dec[2].buf)
    /\ dec[2].buf # dec[1].buf
---------------------------------------------------------------------------
(* C21: the default arm of decodeOperatorBody.                             *)

\* The byte decodeOp reads next is a non-zero code without a decode arm.
AtArmlessCode ==
    /\ pc = "loop"
    /\ pos < Len(buf)
    /\ buf[pos + 1] \notin ArmOps \cup {unknownOp}

\* C21: for a non-zero operator code without a decode arm, decodeOp reads
\* the code byte and nothing else, does not fail, and pushes a node of that
\* code without attributes whose children are the former stack top alone
\* when the stack held a node, and none when the stack was empty; the
\* child is taken off the stack.
C21_UnrecognizedOperatorFallback ==
    [][AtArmlessCode =>
          /\ pos' = pos + 1
          /\ ~failedRead'
          /\ pc' = "loop" /\ outcome' = outcome
          /\ calls' = calls
          /\ Len(pushLog') = Len(pushLog) + 1
          /\ Last(pushLog').op = buf[pos + 1]
          /\ Last(pushLog').args = NoArgs
          /\ Last(pushLog').children =
                 (IF nodeStack = <<>> THEN <<>> ELSE <<Top(nodeStack)>>)
          /\ nodeStack' =
                 (IF nodeStack = <<>> THEN <<>>
                  ELSE SubSeq(nodeStack, 1, Len(nodeStack) - 1))
                 \o <<Last(pushLog')>>]_vars

\* C21 witness: an enumerated code without an arm was decoded on an empty
\* stack, and a code outside the enumeration took the top of a stack of two.
C21_Witness ==
    /\ Len(pushLog) = 3
    /\ pushLog[1].op \in {applyJoinOp, ordinalityOp, windowOp}
    /\ pushLog[1].children = <<>>
    /\ pushLog[3].op = 200
    /\ pushLog[3].children = <<pushLog[2]>>
    /\ nodeStack = <<pushLog[1], pushLog[3]>>

---------------------------------------------------------------------------
(* C22: the spans and limit lines of a scan.                               *)

\* The values the scan at n read from the buffer, in the order read: table,
\* index, needed columns, span count, inverted span count, hard limit.
ScanReads(n) ==
    ReadFields(<<"table", "index", "intset", "int", "int", "int">>, 1, buf,
               Reader(n.addr), "nil", "nil").vals

SpanCount(n) == ScanReads(n)[4]

HardLimit(n) == ScanReads(n)[6]

\* The text of a line: its pieces, concatenated.
RECURSIVE Text(_)
Text(line) == IF line = <<>> THEN "" ELSE line[1] \o Text(Tail(line))

ScansPushed == {n \in Range(pushLog) : n.op = scanOp}

LimitLines(out) ==
    {j \in DOMAIN out : Len(out[j]) >= 2 /\ out[j][2] = "limit: "}

\* out is the text of scan n and reads the values n read from the buffer.
ScanRendered(n, out, reads) ==
    /\ Text(out[3]) =
          (IF reads[4] <= 0
           THEN attrPrefix(n) \o "spans: FULL SCAN"
           ELSE attrPrefix(n) \o "spans: " \o ToString(reads[4])
                \o "+ spans")
    /\ LimitLines(out) # {} <=> reads[6] # 0
    /\ LimitLines(out) \subseteq {4}

\* C22: a scan whose span count is zero or negative renders the line
\* "spans: FULL SCAN"; a scan whose span count is N >= 1 renders
\* "spans: N+ spans"; the scan renders a limit line exactly when its hard
\* limit is not zero.  The spans line follows the bullet and the table
\* line.  Stated of every scan decoded, when DecodePlanGist has returned.
C22_ScanSpanRendering ==
    pc = "done" =>
        \A n \in ScansPushed : ScanRendered(n, formatNode(n), ScanReads(n))

\* C22 witness: a scan with one span and no limit and a scan with no span
\* and a limit have been rendered.
C22_Witness ==
    /\ pc = "done"
    /\ \E n \in ScansPushed : SpanCount(n) = 1 /\ HardLimit(n) = 0
    /\ \E n \in ScansPushed : SpanCount(n) <= 0 /\ HardLimit(n) # 0

---------------------------------------------------------------------------
(* C23: the connectors of the children.                                    *)

\* The number of lines a child of text own takes in its parent's text:
\* the lines of its own text, and one line when it has no text.
LinesOf(own) == IF own = <<>> THEN 1 ELSE Len(own)

BlockLen(c) == LinesOf(formatNode(c))

\* Line j of a child of text own, empty when it has no text.
ChildLine(own, j) == IF own = <<>> THEN <<>> ELSE own[j]

\* The number of lines of n's text before the lines of child i.
RECURSIVE BlockStart(_, _)
BlockStart(n, i) ==
    IF i = 1 THEN 1 + Len(attrLines(n))
    ELSE BlockStart(n, i - 1) + BlockLen(n.children[i - 1])

\* The nodes FormatPlan renders that have children.
RenderedParents ==
    {n \in TreeNodes(node) : n.op \notin Projections /\ Len(n.children) > 0}

\* What stands in front of line j of child i of n.
Lead(n, i, j) ==
    IF i = Len(n.children)
    THEN (IF j = 1 THEN "+-- " ELSE "    ")
    ELSE (IF j = 1 THEN "|-- " ELSE "|   ")

\* In out, the text of n, the lines from start on are those of child i,
\* whose own text is own, each behind its connector or its prefix.
BlockAt(n, out, i, start, own) ==
    \A j \in 1..LinesOf(own) :
        out[start + j] = <<Lead(n, i, j)>> \o ChildLine(own, j)

\* out, the text of n, is n's own lines and then the children's blocks.
Connected(n, out) ==
    /\ Len(out) = BlockStart(n, Len(n.children) + 1)
    /\ \A i \in DOMAIN n.children :
          BlockAt(n, out, i, BlockStart(n, i), formatNode(n.children[i]))

\* FormatPlan's text is the root's text, rootText, behind the margin.
Behind(rootText) ==
    /\ Len(output) = Len(rootText)
    /\ \A j \in DOMAIN output : output[j] = <<"  ">> \o rootText[j]

\* C23: in the text of every rendered node with children, the children
\* follow the node's own lines in their stored order; the first line of a
\* child that is not the last is introduced by the branching connector and
\* every following line of its subtree by the bar and three spaces; the
\* first line of the last child is introduced by the terminal connector and
\* every following line of its subtree by four spaces.  FormatPlan's text
\* is that of the root behind a margin of two spaces.
C23_ChildConnectors ==
    pc = "formatted" =>
        /\ \A n \in RenderedParents : Connected(n, formatNode(n))
        /\ node \in RenderedParents => Behind(formatNode(node))

\* C23 witness: the formatted root has two children of several lines each.
C23_Witness ==
    /\ pc = "formatted"
    /\ node \in RenderedParents
    /\ Len(node.children) = 2
    /\ BlockLen(node.children[1]) >= 2
    /\ BlockLen(node.children[2]) >= 2
    /\ \E j \in DOMAIN output : output[j][2] = "|   "
    /\ \E j \in DOMAIN output : output[j][2] = "    "

---------------------------------------------------------------------------
(* C24: termination of DecodePlanGist.                                     *)

\* C24: on every buffer DecodePlanGist stops, with a result or a failure;
\* the read position never moves backwards and stays within the buffer,
\* and every iteration of the loop that does not stop the loop moves the
\* position forward by at least one byte.
C24_DecodeTerminates ==
    /\ <>(pc = "done")
    /\ [](pc = "done" => outcome \in {"ok", "panic", "version", "base64"})
    /\ [](pos <= Len(buf))
    /\ [][pos' >= pos]_vars
    /\ [][(pc = "loop" /\ pc' = "loop") => pos' > pos]_vars

\* C24 witness: the loop has run two iterations that did not stop it, the
\* last on an operator without a body, and DecodePlanGist has returned.
C24_Witness ==
    /\ pc = "done"
    /\ Len(pushLog) = 2
    /\ bodyFields(pushLog[2].op) = <<>>
    /\ pos = Len(buf)

---------------------------------------------------------------------------
(* C25: the bytes after the terminator.                                    *)

\* The buffer up to and including the byte the loop stopped at.
ReadPrefix == SubSeq(buf, 1, pos)

\* r, what DecodePlanGist returns for another buffer, is what it has
\* returned for this one: no error and the same tree.
SameReturn(r) == r.outcome = "ok" /\ r.node = node

\* C25: when the loop has stopped at a zero code byte, that byte is the
\* first zero at an operator-code position, the position stays on it, so
\* that no byte after it is read, and DecodePlanGist returns without
\* error the tree it returns for the prefix up to that byte alone and for
\* that prefix followed by any other bytes.
C25_TrailingBytesIgnored ==
    (pc \in {"finish", "done", "formatted"} /\ atEnd = "terminator") =>
        /\ pos >= 1 /\ pos <= Len(buf) /\ buf[pos] = 0
        /\ \A n \in Range(pushLog) : n.addr < pos /\ buf[n.addr] # 0
        /\ pc # "finish" => outcome = "ok"
        /\ (pc = "done" /\ tableLookup = "fn" /\ indexLookup = "fn") =>
              \A t \in Trailers \cup {<<>>} :
                  SameReturn(Alone(Encode(ReadPrefix \o t)))

\* C25 witness: DecodePlanGist has returned a tree from a buffer with bytes
\* after the terminator which, read as an operator, would fail.
C25_Witness ==
    /\ pc = "done"
    /\ atEnd = "terminator"
    /\ tableLookup = "fn"
    /\ node # Nil
    /\ SubSeq(buf, pos + 1, Len(buf)) = <<1, 224, 1>>

=============================================================================
